---- MODULE Spec2Model ----
(***************************************************************************)
(* merch-design-enhancer: the MerchDesignEnhancer facade, the input        *)
(* normalizer, the prompt builder and the four AI provider adapters        *)
(* (NanoBanana, OpenAI, Stability, Replicate) as a state machine.          *)
(*                                                                         *)
(* Text is a sequence of one-character strings, a Buffer is a sequence of  *)
(* bytes (0..255).  A prompt is a sequence of text segments: the literal   *)
(* pieces of the template and the interpolated values, in template order.  *)
(* Every `await` of the source is a step boundary; the remote services and *)
(* the file system are the environment and answer nondeterministically.    *)
(***************************************************************************)
EXTENDS Integers, Sequences, FiniteSets, TLC

(***************************************************************************)
(* Bounds of the model.                                                    *)
(***************************************************************************)
\* status polls counted per call; the counter saturates here, the loop goes on
MaxPolls == 3

(***************************************************************************)
(* Small helpers.                                                          *)
(***************************************************************************)
Min(a, b) == IF a < b THEN a ELSE b

Pow2(n) == IF n = 0 THEN 1 ELSE IF n = 2 THEN 4 ELSE 16

\* String.prototype.includes for a single character
Includes(s, ch) == \E i \in 1..Len(s) : s[i] = ch

\* String.prototype.startsWith
StartsWith(s, p) == Len(s) >= Len(p) /\ \A i \in 1..Len(p) : s[i] = p[i]

\* number of occurrences of segment x in the sequence s
RECURSIVE Count(_, _)
Count(s, x) ==
  IF s = <<>> THEN 0
  ELSE (IF Head(s) = x THEN 1 ELSE 0) + Count(Tail(s), x)

(***************************************************************************)
(* Buffer.from(text, 'base64'): characters outside the alphabet are        *)
(* skipped, '=' ends the input, leftover bits are dropped; never throws.   *)
(***************************************************************************)
B64Alphabet ==
  << "A","B","C","D","E","F","G","H","I","J","K","L","M",
     "N","O","P","Q","R","S","T","U","V","W","X","Y","Z",
     "a","b","c","d","e","f","g","h","i","j","k","l","m",
     "n","o","p","q","r","s","t","u","v","w","x","y","z",
     "0","1","2","3","4","5","6","7","8","9","+","/" >>

B64Value(ch) ==
  IF \E i \in 1..64 : B64Alphabet[i] = ch
    THEN (CHOOSE i \in 1..64 : B64Alphabet[i] = ch) - 1
    ELSE IF ch = "-" THEN 62 ELSE IF ch = "_" THEN 63 ELSE 64

RECURSIVE B64Sextets(_)
B64Sextets(s) ==
  IF s = <<>> \/ Head(s) = "=" THEN <<>>
  ELSE IF B64Value(Head(s)) = 64 THEN B64Sextets(Tail(s))
  ELSE <<B64Value(Head(s))>> \o B64Sextets(Tail(s))

BufferFromBase64(s) ==
  LET v == B64Sextets(s)
      n == (Len(v) * 6) \div 8
  IN  [k \in 1..n |->
         LET bit == 8 * (k - 1)
             i0  == (bit \div 6) + 1
             o   == bit % 6
         IN  ((v[i0] * 64 + v[i0 + 1]) \div Pow2(4 - o)) % 256]

(***************************************************************************)
(* The images and texts of the model.                                      *)
(***************************************************************************)
PngBytes  == <<137, 80, 78, 71>>
JpegBytes == <<255, 216, 255>>
WebpBytes == <<82, 73, 70, 70>>

\* "iVBORw==" is PngBytes, "/9j/" is JpegBytes
PngB64  == <<"i","V","B","O","R","w","=","=">>
JpegB64 == <<"/","9","j","/">>

DataUriPrefix == <<"d","a","t","a",":">>

\* the files the file system holds: path -> contents
FilePaths == { <<".","/","a">>, <<"a",".","p","n","g">> }
FileContents(path) == PngBytes

(***************************************************************************)
(* normalizeImageInput.  An input is a Buffer or a string; the result is   *)
(* [ok |-> TRUE, buffer |-> bytes] or [ok |-> FALSE, error |-> ...].        *)
(***************************************************************************)
Err(kind, detail) == [kind |-> kind, detail |-> detail]
NoError == Err("", "")

\* image.split(',')[1]: the text between the first and the second comma;
\* absent (undefined) when the text holds no comma
HasComma(s) == Includes(s, ",")
FirstComma(s) == CHOOSE i \in 1..Len(s) : s[i] = "," /\ \A j \in 1..(i - 1) : s[j] # ","
SplitSecond(s) ==
  LET rest == SubSeq(s, FirstComma(s) + 1, Len(s))
  IN  IF HasComma(rest) THEN SubSeq(rest, 1, FirstComma(rest) - 1) ELSE rest

normalizeImageInput(image) ==
  IF image.isBuffer THEN [ok |-> TRUE, buffer |-> image.bytes, error |-> NoError]
  ELSE IF StartsWith(image.text, DataUriPrefix) THEN
    IF HasComma(image.text)
      THEN [ok |-> TRUE, buffer |-> BufferFromBase64(SplitSecond(image.text)),
            error |-> NoError]
      \* Buffer.from(undefined, 'base64') throws a TypeError
      ELSE [ok |-> FALSE, buffer |-> <<>>,
            error |-> Err("TypeError: The first argument must be of type string", "")]
  ELSE IF ~Includes(image.text, "/") /\ ~Includes(image.text, "\\") THEN
    \* Buffer.from never throws on a string, the catch is never taken
    [ok |-> TRUE, buffer |-> BufferFromBase64(image.text), error |-> NoError]
  ELSE IF image.text \in FilePaths
    THEN [ok |-> TRUE, buffer |-> FileContents(image.text), error |-> NoError]
    ELSE [ok |-> FALSE, buffer |-> <<>>,
          error |-> Err("ENOENT: no such file or directory", "")]

(***************************************************************************)
(* detectMimeType.  buffer[i] of the source is 0-based and undefined past  *)
(* the end; undefined equals no byte.                                      *)
(***************************************************************************)
ByteAt(buffer, i) == IF i + 1 <= Len(buffer) THEN buffer[i + 1] ELSE -1

\* variant: a Buffer of fewer than four bytes is not looked at
detectMimeType_NeedsFourBytes(buffer) ==
  IF Len(buffer) < 4 THEN "image/png"
  ELSE IF ByteAt(buffer, 0) = 255 /\ ByteAt(buffer, 1) = 216 THEN "image/jpeg"
  ELSE IF ByteAt(buffer, 0) = 137 /\ ByteAt(buffer, 1) = 80
          /\ ByteAt(buffer, 2) = 78 /\ ByteAt(buffer, 3) = 71 THEN "image/png"
  ELSE IF ByteAt(buffer, 0) = 71 /\ ByteAt(buffer, 1) = 73
          /\ ByteAt(buffer, 2) = 70 THEN "image/gif"
  ELSE IF ByteAt(buffer, 0) = 82 /\ ByteAt(buffer, 1) = 73
          /\ ByteAt(buffer, 2) = 70 /\ ByteAt(buffer, 3) = 70 THEN "image/webp"
  ELSE "image/png"

detectMimeType(buffer) ==
  IF ByteAt(buffer, 0) = 255 /\ ByteAt(buffer, 1) = 216 THEN "image/jpeg"
  ELSE IF ByteAt(buffer, 0) = 137 /\ ByteAt(buffer, 1) = 80
          /\ ByteAt(buffer, 2) = 78 /\ ByteAt(buffer, 3) = 71 THEN "image/png"
  ELSE IF ByteAt(buffer, 0) = 71 /\ ByteAt(buffer, 1) = 73
          /\ ByteAt(buffer, 2) = 70 THEN "image/gif"
  ELSE IF ByteAt(buffer, 0) = 82 /\ ByteAt(buffer, 1) = 73
          /\ ByteAt(buffer, 2) = 70 /\ ByteAt(buffer, 3) = 70 THEN "image/webp"
  ELSE "image/png"

(***************************************************************************)
(* ProductType and PromptBuilder.  A color is optional: given = FALSE is   *)
(* the absent (undefined) color.                                           *)
(***************************************************************************)
ClothingTypes ==
  {"hoodie", "shirt", "tank_top", "long_sleeve", "sweatshirt", "jacket"}

ProductType ==
  ClothingTypes \cup {"facecap", "mug", "sticker_pad", "tote_bag"}

\* names[productType] on the object literal `names` also finds what every
\* object inherits from Object.prototype: a function or an object, rendered
\* here as the text `${productName}` puts into the prompt; "" when the
\* lookup gives undefined
InheritedProperty(key) ==
  CASE key = "constructor" -> "function Object() { [native code] }"
    [] key = "toString"    -> "function toString() { [native code] }"
    [] key = "__proto__"   -> "[object Object]"
    [] OTHER               -> ""

\* return names[productType] || 'product'
getProductName(productType) ==
  CASE productType = "hoodie"      -> "hoodie"
    [] productType = "facecap"     -> "face cap or baseball cap"
    [] productType = "shirt"       -> "t-shirt or shirt"
    [] productType = "mug"         -> "ceramic mug"
    [] productType = "sticker_pad" -> "sticker pad or notepad"
    [] productType = "tank_top"    -> "tank top"
    [] productType = "long_sleeve" -> "long sleeve shirt"
    [] productType = "sweatshirt"  -> "sweatshirt"
    [] productType = "jacket"      -> "jacket"
    [] productType = "tote_bag"    -> "tote bag"
    [] OTHER                       ->
         IF InheritedProperty(productType) # ""
           THEN InheritedProperty(productType) ELSE "product"

\* the truthiness test `color ? ... : ...`
ColorGiven(color) == color.given /\ color.text # ""

PreservationClause ==
  " The design on the product must remain exactly as shown in the reference image - do not alter, modify, or change the design in any way. The design should be clearly visible and prominent. Remember it will be used as the sales image for the product."

PromptHead == "Create a high-quality, professional product photography image of a "
PromptRequirements == "Requirements: ... The overall aesthetic should be clean, minimal, and luxurious"
PromptColorAccuracy == "- Color accuracy is important - maintain the exact colors of the "
PromptReinforcement == ", especially the specified color"
PromptStyle == "Style: Professional product photography, boutique aesthetic, ..."

colorDescriptionOf(color) ==
  IF ColorGiven(color) THEN <<" in ", color.text, " color">> ELSE <<>>

designPreservationOf(hasDesign) ==
  IF hasDesign THEN <<PreservationClause>> ELSE <<>>

reinforcementOf(colorDescription) ==
  IF colorDescription # <<>> THEN <<PromptReinforcement>> ELSE <<>>

buildClothingPrompt(productType, colorDescription, designPreservation) ==
  <<PromptHead, getProductName(productType)>> \o colorDescription
  \o <<" hanging from an elegant golden or wooden ", "hanger",
       " in a luxury boutique setting.",
       "- The ", getProductName(productType),
       " should be displayed hanging from a premium golden or wooden hanger",
       PromptRequirements>>
  \o designPreservation
  \o <<"- The hanger should be visible but not distract from the product",
       PromptColorAccuracy, "product">>
  \o reinforcementOf(colorDescription) \o <<PromptStyle>>

buildCapPrompt(colorDescription, designPreservation) ==
  <<PromptHead, "face cap or baseball cap">> \o colorDescription
  \o <<" displayed on an elegant cap ", "stand",
       " or mannequin head in a luxury boutique setting.",
       PromptRequirements>>
  \o designPreservation
  \o <<"- The display stand should be visible but not distract from the cap",
       PromptColorAccuracy, "cap">>
  \o reinforcementOf(colorDescription) \o <<PromptStyle>>

buildMugPrompt(colorDescription, designPreservation) ==
  <<PromptHead, "ceramic mug">> \o colorDescription
  \o <<" displayed on an elegant ", "surface",
       " in a luxury boutique or modern home setting.",
       PromptRequirements>>
  \o designPreservation
  \o <<"- The surface should complement the mug without distracting from it",
       PromptColorAccuracy, "mug">>
  \o reinforcementOf(colorDescription) \o <<PromptStyle>>

buildStickerPadPrompt(colorDescription, designPreservation) ==
  <<PromptHead, "sticker pad or notepad">> \o colorDescription
  \o <<" displayed on an elegant ", "desk", " or table ", "surface",
       " in a luxury boutique or modern workspace setting.",
       PromptRequirements>>
  \o designPreservation
  \o <<"- The surface should complement the pad without distracting from it",
       PromptColorAccuracy, "sticker pad">>
  \o reinforcementOf(colorDescription) \o <<PromptStyle>>

buildToteBagPrompt(colorDescription, designPreservation) ==
  <<PromptHead, "tote bag">> \o colorDescription
  \o <<" displayed hanging from an elegant ", "hook",
       " or displayed on a ", "surface", " in a luxury boutique setting.",
       PromptRequirements>>
  \o designPreservation
  \o <<"- The hook or surface should be visible but not distract from the bag",
       PromptColorAccuracy, "bag">>
  \o reinforcementOf(colorDescription) \o <<PromptStyle>>

buildGenericPrompt(productType, colorDescription, designPreservation) ==
  <<PromptHead, getProductName(productType)>> \o colorDescription
  \o <<" displayed in a luxury boutique setting.",
       "- The ", getProductName(productType),
       " should be displayed in an elegant and natural way",
       PromptRequirements>>
  \o designPreservation
  \o <<PromptColorAccuracy, "product">>
  \o reinforcementOf(colorDescription) \o <<PromptStyle>>

\* variant: the face cap case is missing and falls to the default branch
buildPrompt_NoCapCase(productType, color, hasDesign) ==
  LET colorDescription   == colorDescriptionOf(color)
      designPreservation == designPreservationOf(hasDesign)
  IN  CASE productType \in ClothingTypes ->
             buildClothingPrompt(productType, colorDescription, designPreservation)
        [] productType = "mug" ->
             buildMugPrompt(colorDescription, designPreservation)
        [] productType = "sticker_pad" ->
             buildStickerPadPrompt(colorDescription, designPreservation)
        [] productType = "tote_bag" ->
             buildToteBagPrompt(colorDescription, designPreservation)
        [] OTHER ->
             buildGenericPrompt(productType, colorDescription, designPreservation)

buildPrompt(productType, color, hasDesign) ==
  LET colorDescription   == colorDescriptionOf(color)
      designPreservation == designPreservationOf(hasDesign)
  IN  CASE productType \in ClothingTypes ->
             buildClothingPrompt(productType, colorDescription, designPreservation)
        [] productType = "facecap" ->
             buildCapPrompt(colorDescription, designPreservation)
        [] productType = "mug" ->
             buildMugPrompt(colorDescription, designPreservation)
        [] productType = "sticker_pad" ->
             buildStickerPadPrompt(colorDescription, designPreservation)
        [] productType = "tote_bag" ->
             buildToteBagPrompt(colorDescription, designPreservation)
        [] OTHER ->
             buildGenericPrompt(productType, colorDescription, designPreservation)

(***************************************************************************)
(* The single-template PromptBuilder the repository also holds: every      *)
(* category gets the hanger template, the color is named twice.            *)
(***************************************************************************)
buildPromptSingle(productType, color, hasDesign) ==
  <<PromptHead, getProductName(productType)>> \o colorDescriptionOf(color)
  \o <<" hanging from an elegant golden or wooden ", "hanger",
       " in a luxury boutique setting.",
       "- The ", getProductName(productType),
       " should be displayed hanging from a premium golden or wooden hanger",
       PromptRequirements>>
  \o designPreservationOf(hasDesign)
  \o <<"- The hanger should be visible but not distract from the product",
       PromptColorAccuracy, "product">>
  \o (IF ColorGiven(color)
        THEN <<", especially the ", color.text, " color specified">> ELSE <<>>)
  \o <<PromptStyle>>

(***************************************************************************)
(* createAIProvider: the adapter class bound to a provider identity, or a  *)
(* throw.  The adapters hold no fields; an adapter is its class name.      *)
(***************************************************************************)
Providers == {"nanobanana", "openai", "stability", "replicate"}

\* variant: the default branch returns the default adapter
createAIProvider_DefaultAdapter(provider) ==
  CASE provider = "openai"     -> [ok |-> TRUE, adapter |-> "OpenAIProvider"]
    [] provider = "stability"  -> [ok |-> TRUE, adapter |-> "StabilityAIProvider"]
    [] provider = "replicate"  -> [ok |-> TRUE, adapter |-> "ReplicateProvider"]
    [] OTHER                   -> [ok |-> TRUE, adapter |-> "NanoBananaProvider"]

createAIProvider(provider) ==
  CASE provider = "nanobanana" -> [ok |-> TRUE, adapter |-> "NanoBananaProvider"]
    [] provider = "openai"     -> [ok |-> TRUE, adapter |-> "OpenAIProvider"]
    [] provider = "stability"  -> [ok |-> TRUE, adapter |-> "StabilityAIProvider"]
    [] provider = "replicate"  -> [ok |-> TRUE, adapter |-> "ReplicateProvider"]
    [] OTHER                   -> [ok |-> FALSE, adapter |-> ""]

(***************************************************************************)
(* Inputs of the model.                                                    *)
(***************************************************************************)
Calls == {"c1", "c2"}
\* the call of a caller that awaits each enhanceImage before the next
MainCall == "c1"

ApiKeys == {"", "key-1"}

\* options.provider: absent, the four identities, '' and an unknown identity
NoProvider == [given |-> FALSE, name |-> ""]
ProviderOptions ==
  {NoProvider} \cup
  {[given |-> TRUE, name |-> n] : n \in Providers \cup {"", "midjourney"}}

BufferInput(bytes) == [isBuffer |-> TRUE, bytes |-> bytes, text |-> <<>>]
TextInput(text) == [isBuffer |-> FALSE, bytes |-> <<>>, text |-> text]
NoImage == BufferInput(<<>>)

ImageInputs ==
  { BufferInput(PngBytes),
    BufferInput(<<>>),
    TextInput(DataUriPrefix \o <<";","b","a","s","e","6","4",",">> \o PngB64),
    TextInput(DataUriPrefix \o <<"x">>),
    TextInput(JpegB64 \o <<"A","A","A","A">>),
    TextInput(<<"a",".","p","n","g">>),
    TextInput(<<".","/","a">>),
    TextInput(<<".","/","b">>) }

\* the ten categories and a value outside the enum
ProductTypeInputs == ProductType \cup {"poster", "constructor", "__proto__"}

NoColor == [given |-> FALSE, text |-> ""]
ColorInputs == {NoColor, [given |-> TRUE, text |-> ""],
                [given |-> TRUE, text |-> "navy blue"]}

(***************************************************************************)
(* What the remote services answer.  ok is response.ok, json tells whether *)
(* the body parses as JSON, raw is the body text.                          *)
(***************************************************************************)
JsonErrorBody == "{\"error\":\"quota exceeded\"}"
TextErrorBody == "Bad Gateway"
UnknownErrorJson == "{\"error\":\"Unknown error\"}"

\* JSON.stringify(await response.json().catch(() => ({ error: 'Unknown error' })))
StringifiedErrorOf(r) == IF r.json THEN r.raw ELSE UnknownErrorJson

\* Replicate prediction objects; an absent status or error is ""
InProgress == {"starting", "processing"}
OutputUrl == "https://replicate.delivery/out.png"
Prediction(status, output, error) ==
  [status |-> status, output |-> output, error |-> error]
NoPrediction == Prediction("", <<>>, "")
TerminalPredictions ==
  { Prediction("succeeded", <<OutputUrl>>, ""),
    Prediction("succeeded", <<>>, ""),
    Prediction("failed", <<>>, "out of memory"),
    Prediction("failed", <<>>, ""),
    Prediction("canceled", <<>>, ""),
    Prediction("canceled", <<OutputUrl>>, "") }
Predictions ==
  { Prediction("starting", <<>>, ""), Prediction("processing", <<>>, "") }
  \cup TerminalPredictions

\* the body served for a URL that no longer exists
NotFoundBytes == <<52, 48, 52>>

VARIABLES
  enhancer,   \* the MerchDesignEnhancer object: apiKey, provider, aiProvider
  call,       \* call[c]: the frame of one enhanceImage invocation
  job,        \* job[c]: the prediction the Replicate service holds for call c
  probe       \* one application of a function of the package on its own

vars == <<enhancer, call, job, probe>>

NoEnhancer == [state |-> "none", apiKey |-> "", provider |-> "", aiProvider |-> ""]

IdleCall ==
  [ pc            |-> "idle",
    image         |-> NoImage,
    productType   |-> "",
    color         |-> NoColor,
    imageBuffer   |-> <<>>,
    prompt        |-> <<>>,
    steps         |-> <<>>,     \* the facade's steps, in the order taken
    invocations   |-> <<>>,     \* the generateImage invocations and their arguments
    requests      |-> <<>>,     \* the network requests issued, in order
    polls         |-> 0,        \* status polls issued (saturates at MaxPolls)
    waits         |-> 0,        \* one-second waits started (saturates at MaxPolls)
    nonOk         |-> FALSE,    \* some response received had response.ok false
    nonOkRaw      |-> "",       \* the body text of that response
    description   |-> "",       \* OpenAI: designDescription
    result        |-> NoPrediction,  \* Replicate: the local `result`
    created       |-> "",       \* Replicate: the status of `prediction`
    enhancedImage |-> <<>>,
    ret           |-> [image |-> <<>>, mimeType |-> ""],
    error         |-> NoError ]

\* the record of one function application: the arguments, then the result
NoProbe ==
  [ fn          |-> "",
    applied     |-> FALSE,
    name        |-> "",
    apiKey      |-> "",
    option      |-> NoProvider,
    bytes       |-> <<>>,
    image       |-> NoImage,
    productType |-> "",
    color       |-> NoColor,
    hasDesign   |-> FALSE,
    created     |-> [ok |-> FALSE, adapter |-> ""],
    object      |-> NoEnhancer,
    mimeType    |-> "",
    prompt      |-> <<>>,
    productName |-> "",
    normalized  |-> [ok |-> FALSE, buffer |-> <<>>, error |-> NoError] ]

Init ==
  /\ enhancer = NoEnhancer
  /\ call = [c \in Calls |-> IdleCall]
  /\ job = [c \in Calls |-> NoPrediction]
  /\ probe = NoProbe

(***************************************************************************)
(* new MerchDesignEnhancer(options)                                        *)
(***************************************************************************)
\* variant: the default is another provider
DefaultedProvider_OpenAI(option) ==
  IF option.given /\ option.name # "" THEN option.name ELSE "openai"

\* this.provider = options.provider || 'nanobanana'
DefaultedProvider(option) ==
  IF option.given /\ option.name # "" THEN option.name ELSE "nanobanana"

\* variant: the throw of createAIProvider is caught and the default adapter bound
constructor_CatchUnsupported(apiKey, option) ==
  LET provider == DefaultedProvider(option)
      created  == createAIProvider(provider)
  IN  [state |-> "ready", apiKey |-> apiKey, provider |-> provider,
       aiProvider |-> IF created.ok THEN created.adapter
                      ELSE createAIProvider("nanobanana").adapter]

\* the object the constructor leaves, state "threw" when createAIProvider throws
constructor(apiKey, option) ==
  LET provider == DefaultedProvider(option)
      created  == createAIProvider(provider)
  IN  IF created.ok
        THEN [state |-> "ready", apiKey |-> apiKey, provider |-> provider,
              aiProvider |-> created.adapter]
        ELSE [state |-> "threw", apiKey |-> "", provider |-> "",
              aiProvider |-> ""]

Construct(apiKey, option) ==
  /\ enhancer.state = "none"
  /\ enhancer' = constructor(apiKey, option)
  /\ UNCHANGED <<call, job, probe>>

(***************************************************************************)
(* enhanceImage                                                            *)
(***************************************************************************)
Finished(c) == call[c].pc \in {"done", "failed"}

Throw(f, err) == [f EXCEPT !.pc = "failed", !.error = err]

EnhanceImage(c, image, productType, color) ==
  /\ enhancer.state = "ready"
  /\ call[c].pc = "idle"
  /\ call' = [call EXCEPT ![c] =
       [IdleCall EXCEPT !.pc = "normalize", !.image = image,
                        !.productType = productType, !.color = color]]
  /\ job' = [job EXCEPT ![c] = NoPrediction]
  /\ UNCHANGED <<enhancer, probe>>

\* variant: a failed normalization is swallowed and an empty buffer goes on
Normalize_Swallow(c) ==
  LET f == call[c]
      r == normalizeImageInput(f.image)
  IN  /\ f.pc = "normalize"
      /\ call' = [call EXCEPT ![c] =
           [f EXCEPT !.pc = "buildPrompt",
                     !.steps = Append(@, "normalizeImageInput"),
                     !.imageBuffer = r.buffer]]
      /\ UNCHANGED <<enhancer, job, probe>>

\* const imageBuffer = await normalizeImageInput(image)
Normalize(c) ==
  LET f == call[c]
      r == normalizeImageInput(f.image)
      g == [f EXCEPT !.steps = Append(@, "normalizeImageInput")]
  IN  /\ f.pc = "normalize"
      /\ call' = [call EXCEPT ![c] =
           IF r.ok THEN [g EXCEPT !.pc = "buildPrompt", !.imageBuffer = r.buffer]
           ELSE Throw(g, r.error)]
      /\ UNCHANGED <<enhancer, job, probe>>

\* variant: the facade leaves hasDesign false
BuildPrompt_NoDesign(c) ==
  LET f == call[c]
  IN  /\ f.pc = "buildPrompt"
      /\ call' = [call EXCEPT ![c] =
           [f EXCEPT !.pc = "generate",
                     !.steps = Append(@, "buildPrompt"),
                     !.prompt = buildPrompt(f.productType, f.color, FALSE)]]
      /\ UNCHANGED <<enhancer, job, probe>>

\* const prompt = PromptBuilder.buildPrompt(productType, color, true)
BuildPrompt(c) ==
  LET f == call[c]
  IN  /\ f.pc = "buildPrompt"
      /\ call' = [call EXCEPT ![c] =
           [f EXCEPT !.pc = "generate",
                     !.steps = Append(@, "buildPrompt"),
                     !.prompt = buildPrompt(f.productType, f.color, TRUE)]]
      /\ UNCHANGED <<enhancer, job, probe>>

(***************************************************************************)
(* The adapters.  generateImage runs to its first await inside the step    *)
(* that invokes it: the credential check, then the first fetch.            *)
(***************************************************************************)
MissingKeyMessage(adapter) ==
  CASE adapter = "NanoBananaProvider"  -> "Google AI API key is required."
    [] adapter = "OpenAIProvider"      -> "OpenAI API key is required."
    [] adapter = "StabilityAIProvider" -> "Stability AI API key is required."
    [] adapter = "ReplicateProvider"   -> "Replicate API token is required."

FirstRequest(adapter) ==
  CASE adapter = "NanoBananaProvider"  -> "gemini:generateContent"
    [] adapter = "OpenAIProvider"      -> "openai:chat/completions"
    [] adapter = "StabilityAIProvider" -> "stability:edit/creative"
    [] adapter = "ReplicateProvider"   -> "replicate:predictions"

FirstAwait(adapter) ==
  CASE adapter = "NanoBananaProvider"  -> "awaitGemini"
    [] adapter = "OpenAIProvider"      -> "awaitVision"
    [] adapter = "StabilityAIProvider" -> "awaitStability"
    [] adapter = "ReplicateProvider"   -> "awaitCreate"

\* variant: the Stability adapter lacks the credential check
generateImage_NoStabilityCheck(f, adapter, prompt, referenceImage, apiKey) ==
  LET g == [f EXCEPT !.invocations =
              Append(@, [adapter |-> adapter, prompt |-> prompt,
                         referenceImage |-> referenceImage, apiKey |-> apiKey])]
  IN  IF apiKey = "" /\ adapter # "StabilityAIProvider"
        THEN Throw(g, Err(MissingKeyMessage(adapter), ""))
        ELSE [g EXCEPT !.pc = FirstAwait(adapter),
                       !.requests = Append(@, FirstRequest(adapter))]

\* const apiKey = options.apiKey; if (!apiKey) throw ...; ... await fetch(...)
generateImage(f, adapter, prompt, referenceImage, apiKey) ==
  LET g == [f EXCEPT !.invocations =
              Append(@, [adapter |-> adapter, prompt |-> prompt,
                         referenceImage |-> referenceImage, apiKey |-> apiKey])]
  IN  IF apiKey = ""
        THEN Throw(g, Err(MissingKeyMessage(adapter), ""))
        ELSE [g EXCEPT !.pc = FirstAwait(adapter),
                       !.requests = Append(@, FirstRequest(adapter))]

\* variant: the options object handed to the adapter lacks the credential
GenerateImage_NoKey(c) ==
  LET f == call[c]
  IN  /\ f.pc = "generate"
      /\ call' = [call EXCEPT ![c] =
           generateImage([f EXCEPT !.steps = Append(@, "generateImage")],
                         enhancer.aiProvider, f.prompt, f.imageBuffer, "")]
      /\ UNCHANGED <<enhancer, job, probe>>

\* variant: the prompt is kept in a field all calls of the object share, and
\* the invocation takes what another call in flight has put there
GenerateImage_SharedPrompt(c) ==
  LET f == call[c]
      others == {d \in Calls \ {c} : call[d].prompt # <<>>}
      shared == IF others = {} THEN f.prompt
                ELSE call[CHOOSE d \in others : TRUE].prompt
  IN  /\ f.pc = "generate"
      /\ call' = [call EXCEPT ![c] =
           generateImage([f EXCEPT !.steps = Append(@, "generateImage")],
                         enhancer.aiProvider, shared, f.imageBuffer,
                         enhancer.apiKey)]
      /\ UNCHANGED <<enhancer, job, probe>>

\* const enhancedImage = await this.aiProvider.generateImage(prompt, imageBuffer, {apiKey})
GenerateImage(c) ==
  LET f == call[c]
  IN  /\ f.pc = "generate"
      /\ call' = [call EXCEPT ![c] =
           generateImage([f EXCEPT !.steps = Append(@, "generateImage")],
                         enhancer.aiProvider, f.prompt, f.imageBuffer,
                         enhancer.apiKey)]
      /\ UNCHANGED <<enhancer, job, probe>>

\* the adapter's promise resolves with a Buffer
Resolve(f, bytes) == [f EXCEPT !.pc = "detectMime", !.enhancedImage = bytes]

\* variant: the MIME type is detected on the input image
DetectMime_OfInput(c) ==
  LET f == call[c]
  IN  /\ f.pc = "detectMime"
      /\ call' = [call EXCEPT ![c] =
           [f EXCEPT !.pc = "done",
                     !.steps = Append(@, "detectMimeType"),
                     !.ret = [image |-> f.enhancedImage,
                              mimeType |-> detectMimeType(f.imageBuffer)]]]
      /\ UNCHANGED <<enhancer, job, probe>>

\* const mimeType = detectMimeType(enhancedImage); return { image, mimeType }
DetectMime(c) ==
  LET f == call[c]
  IN  /\ f.pc = "detectMime"
      /\ call' = [call EXCEPT ![c] =
           [f EXCEPT !.pc = "done",
                     !.steps = Append(@, "detectMimeType"),
                     !.ret = [image |-> f.enhancedImage,
                              mimeType |-> detectMimeType(f.enhancedImage)]]]
      /\ UNCHANGED <<enhancer, job, probe>>

\* the promise enhanceImage returned is settled: the caller has the result
\* or the error, and the frame of the call is gone
Settle(c) ==
  /\ Finished(c)
  /\ call' = [call EXCEPT ![c] = IdleCall]
  /\ job' = [job EXCEPT ![c] = NoPrediction]
  /\ UNCHANGED <<enhancer, probe>>

\* a fetch that rejects (no response at all)
AwaitingFetch == {"awaitGemini", "awaitVision", "awaitDalle", "awaitStability",
                  "awaitCreate", "awaitPoll", "awaitImage"}

NetworkFail(c) ==
  /\ call[c].pc \in AwaitingFetch
  /\ call' = [call EXCEPT ![c] = Throw(@, Err("TypeError: fetch failed", ""))]
  /\ UNCHANGED <<enhancer, job, probe>>

SyntaxError == Err("SyntaxError: Unexpected token in JSON", "")
UndefinedError == Err("TypeError: Cannot read properties of undefined", "")

Seen(f, r) ==
  [f EXCEPT !.nonOk = @ \/ ~r.ok, !.nonOkRaw = IF r.ok THEN @ ELSE r.raw]

(***************************************************************************)
(* NanoBananaProvider                                                      *)
(***************************************************************************)
TextPart == [hasInline |-> FALSE, data |-> <<>>]
ImagePart(data) == [hasInline |-> TRUE, data |-> data]
Candidate(parts) == [hasParts |-> TRUE, parts |-> parts]
GeminiBody(hasCandidates, candidates) ==
  [ok |-> TRUE, json |-> TRUE, raw |-> "", hasCandidates |-> hasCandidates,
   candidates |-> candidates]
ErrorResponse(json, raw) ==
  [ok |-> FALSE, json |-> json, raw |-> raw, hasCandidates |-> FALSE,
   candidates |-> <<>>]

GeminiResponses ==
  { ErrorResponse(TRUE, JsonErrorBody),
    ErrorResponse(FALSE, TextErrorBody),
    [GeminiBody(FALSE, <<>>) EXCEPT !.json = FALSE, !.raw = "<html>"],
    GeminiBody(FALSE, <<>>),
    GeminiBody(TRUE, <<>>),
    GeminiBody(TRUE, <<[hasParts |-> FALSE, parts |-> <<>>]>>),
    GeminiBody(TRUE, <<Candidate(<<TextPart>>)>>),
    GeminiBody(TRUE, <<Candidate(<<TextPart, ImagePart(PngB64)>>)>>),
    GeminiBody(TRUE, <<Candidate(<<ImagePart(JpegB64), ImagePart(PngB64)>>)>>),
    GeminiBody(TRUE, <<Candidate(<<ImagePart(<<>>), ImagePart(PngB64)>>)>>) }

\* data.candidates[0]?.content?.parts?.find((part) => part.inlineData)
FindImagePart(candidates) ==
  IF candidates = <<>> \/ ~candidates[1].hasParts THEN TextPart
  ELSE LET parts == candidates[1].parts
           hits  == {i \in 1..Len(parts) : parts[i].hasInline}
       IN  IF hits = {} THEN TextPart
           ELSE parts[CHOOSE i \in hits : \A j \in hits : i <= j]

NanoBananaResponse(f, r) ==
  IF ~r.ok THEN
    Throw(Seen(f, r), Err("Google Gemini API error: ", StringifiedErrorOf(r)))
  ELSE IF ~r.json THEN Throw(f, SyntaxError)
  ELSE IF ~r.hasCandidates THEN Throw(f, UndefinedError)
  ELSE LET imagePart == FindImagePart(r.candidates)
       IN  IF ~imagePart.hasInline \/ imagePart.data = <<>>
             THEN Throw(f, Err("Nano Banana API did not return an image", ""))
             ELSE Resolve(f, BufferFromBase64(imagePart.data))

GeminiResponse(c) ==
  /\ call[c].pc = "awaitGemini"
  /\ \E r \in GeminiResponses :
       call' = [call EXCEPT ![c] = NanoBananaResponse(@, r)]
  /\ UNCHANGED <<enhancer, job, probe>>

(***************************************************************************)
(* OpenAIProvider                                                          *)
(***************************************************************************)
\* choices / data: the list the success body carries
OpenAIBody(ok, json, raw, items) ==
  [ok |-> ok, json |-> json, raw |-> raw, items |-> items]

VisionResponses ==
  { OpenAIBody(FALSE, TRUE, JsonErrorBody, <<>>),
    OpenAIBody(FALSE, FALSE, TextErrorBody, <<>>),
    OpenAIBody(TRUE, FALSE, "<html>", <<>>),
    OpenAIBody(TRUE, TRUE, "", <<>>),
    OpenAIBody(TRUE, TRUE, "", <<"a red star logo">>) }

DalleResponses ==
  { OpenAIBody(FALSE, TRUE, JsonErrorBody, <<>>),
    OpenAIBody(FALSE, FALSE, TextErrorBody, <<>>),
    OpenAIBody(TRUE, FALSE, "<html>", <<>>),
    OpenAIBody(TRUE, TRUE, "", <<>>),
    OpenAIBody(TRUE, TRUE, "", <<PngB64>>),
    OpenAIBody(TRUE, TRUE, "", <<JpegB64>>) }

\* variant: the vision response is used without a look at response.ok
OpenAIVision_IgnoreStatus(f, r) ==
  IF ~r.json THEN Throw(Seen(f, r), SyntaxError)
  ELSE [Seen(f, r) EXCEPT !.pc = "awaitDalle",
                 !.description = IF r.items = <<>> THEN "undefined" ELSE r.items[1],
                 !.requests = Append(@, "openai:images/generations")]

OpenAIVision(f, r) ==
  IF ~r.ok THEN
    Throw(Seen(f, r), Err("OpenAI Vision API error: ", StringifiedErrorOf(r)))
  ELSE IF ~r.json THEN Throw(f, SyntaxError)
  ELSE IF r.items = <<>> THEN Throw(f, UndefinedError)
  ELSE [f EXCEPT !.pc = "awaitDalle",
                 !.description = r.items[1],
                 !.requests = Append(@, "openai:images/generations")]

OpenAIDalle(f, r) ==
  IF ~r.ok THEN
    Throw(Seen(f, r), Err("OpenAI DALL-E API error: ", StringifiedErrorOf(r)))
  ELSE IF ~r.json THEN Throw(f, SyntaxError)
  ELSE IF r.items = <<>> THEN Throw(f, UndefinedError)
  ELSE Resolve(f, BufferFromBase64(r.items[1]))

VisionResponse(c) ==
  /\ call[c].pc = "awaitVision"
  /\ \E r \in VisionResponses :
       call' = [call EXCEPT ![c] = OpenAIVision(@, r)]
  /\ UNCHANGED <<enhancer, job, probe>>

DalleResponse(c) ==
  /\ call[c].pc = "awaitDalle"
  /\ \E r \in DalleResponses :
       call' = [call EXCEPT ![c] = OpenAIDalle(@, r)]
  /\ UNCHANGED <<enhancer, job, probe>>

(***************************************************************************)
(* StabilityAIProvider                                                     *)
(***************************************************************************)
BinaryBody(ok, raw, bytes) == [ok |-> ok, raw |-> raw, bytes |-> bytes]

StabilityResponses ==
  { BinaryBody(FALSE, JsonErrorBody, <<>>),
    BinaryBody(FALSE, TextErrorBody, <<>>),
    BinaryBody(TRUE, "", PngBytes),
    BinaryBody(TRUE, "", WebpBytes),
    BinaryBody(TRUE, "", <<>>) }

\* variant: a failed request is sent once more
StabilityEdit_Retry(f, r) ==
  IF ~r.ok THEN
    IF Len(f.requests) < 2
      THEN [Seen(f, r) EXCEPT !.requests = Append(@, "stability:edit/creative")]
      ELSE Throw(Seen(f, r), Err("Stability AI API error: ", r.raw))
  ELSE Resolve(f, r.bytes)

StabilityEdit(f, r) ==
  IF ~r.ok THEN Throw(Seen(f, r), Err("Stability AI API error: ", r.raw))
  ELSE Resolve(f, r.bytes)

StabilityResponse(c) ==
  /\ call[c].pc = "awaitStability"
  /\ \E r \in StabilityResponses :
       call' = [call EXCEPT ![c] = StabilityEdit(@, r)]
  /\ UNCHANGED <<enhancer, job, probe>>

(***************************************************************************)
(* ReplicateProvider                                                       *)
(***************************************************************************)
ReplicateBody(ok, json, raw, prediction) ==
  [ok |-> ok, json |-> json, raw |-> raw, prediction |-> prediction]

\* the creation answer: an error, an unparsable body, a body without a
\* status, or the new prediction: in progress, or already finished
CreatedPredictions == {p \in Predictions : p.status # "canceled"}

CreateResponses ==
  { ReplicateBody(FALSE, TRUE, JsonErrorBody, NoPrediction),
    ReplicateBody(FALSE, FALSE, TextErrorBody, NoPrediction),
    ReplicateBody(TRUE, FALSE, "<html>", NoPrediction),
    ReplicateBody(TRUE, TRUE, "", NoPrediction) }
  \cup {ReplicateBody(TRUE, TRUE, "", p) : p \in CreatedPredictions}

\* the status answer: the prediction as the service holds it, or an error
\* body (JSON without a status, or not JSON at all)
PollResponses(held) ==
  { ReplicateBody(TRUE, TRUE, "", held),
    ReplicateBody(FALSE, TRUE, JsonErrorBody, NoPrediction),
    ReplicateBody(FALSE, FALSE, TextErrorBody, NoPrediction) }

ImageResponses ==
  { BinaryBody(TRUE, "", PngBytes),
    BinaryBody(TRUE, "", JpegBytes),
    BinaryBody(FALSE, "Not Found", NotFoundBytes) }

\* variant: the loop goes on until the prediction succeeded or failed
LoopCondition_UntilSettled(result) == result.status \notin {"succeeded", "failed"}

\* while (result.status === 'starting' || result.status === 'processing')
LoopCondition(result) == result.status \in InProgress

\* the statements after the poll loop, up to the await of the image fetch
AfterLoop(f) ==
  IF f.result.status = "failed" THEN
    Throw(f, Err("Replicate prediction failed: ",
                 IF f.result.error # "" THEN f.result.error ELSE "Unknown error"))
  ELSE IF f.result.output = <<>> THEN
    Throw(f, Err("Replicate prediction did not return an image", ""))
  ELSE [f EXCEPT !.pc = "awaitImage",
                 !.requests = Append(@, f.result.output[1])]

\* variant: the loop gives up after two polls
PollLoop_MaxAttempts(f) ==
  IF LoopCondition(f.result) /\ f.polls < 2
    THEN [f EXCEPT !.pc = "waitTimer", !.waits = Min(@ + 1, MaxPolls)]
    ELSE AfterLoop(f)

\* variant: a do-while loop, the status is fetched at least once
PollLoop_DoWhile(f) ==
  IF LoopCondition(f.result) \/ f.polls = 0
    THEN [f EXCEPT !.pc = "waitTimer", !.waits = Min(@ + 1, MaxPolls)]
    ELSE AfterLoop(f)

\* the loop test, then either the one-second wait or the loop exit
PollLoop(f) ==
  IF LoopCondition(f.result)
    THEN [f EXCEPT !.pc = "waitTimer", !.waits = Min(@ + 1, MaxPolls)]
    ELSE AfterLoop(f)

ReplicateCreate(f, r) ==
  IF ~r.ok THEN
    Throw(Seen(f, r), Err("Replicate API error: ", StringifiedErrorOf(r)))
  ELSE IF ~r.json THEN Throw(f, SyntaxError)
  ELSE PollLoop([f EXCEPT !.result = r.prediction,
                          !.created = r.prediction.status])

\* result = await statusResponse.json(), with no look at statusResponse.ok
ReplicatePoll(f, r) ==
  IF ~r.json THEN Throw(Seen(f, r), SyntaxError)
  ELSE PollLoop([Seen(f, r) EXCEPT !.result = r.prediction])

\* Buffer.from(await imageResponse.arrayBuffer()), with no look at imageResponse.ok
ReplicateImage(f, r) == Resolve(Seen(f, r), r.bytes)

CreateResponse(c) ==
  /\ call[c].pc = "awaitCreate"
  /\ \E r \in CreateResponses :
       /\ call' = [call EXCEPT ![c] = ReplicateCreate(@, r)]
       /\ job' = [job EXCEPT ![c] = IF r.ok /\ r.json THEN r.prediction ELSE @]
  /\ UNCHANGED <<enhancer, probe>>

\* the setTimeout of the loop body fires and the status request goes out
TimerFire(c) ==
  LET f == call[c]
  IN  /\ f.pc = "waitTimer"
      /\ call' = [call EXCEPT ![c] =
           [f EXCEPT !.pc = "awaitPoll",
                     !.polls = Min(@ + 1, MaxPolls),
                     !.requests = IF f.polls < MaxPolls
                                    THEN Append(@, "replicate:predictions/id")
                                    ELSE @]]
      /\ UNCHANGED <<enhancer, job, probe>>

PollResponse(c) ==
  /\ call[c].pc = "awaitPoll"
  /\ \E r \in PollResponses(job[c]) :
       call' = [call EXCEPT ![c] = ReplicatePoll(@, r)]
  /\ UNCHANGED <<enhancer, job, probe>>

ImageResponse(c) ==
  /\ call[c].pc = "awaitImage"
  /\ \E r \in ImageResponses :
       call' = [call EXCEPT ![c] = ReplicateImage(@, r)]
  /\ UNCHANGED <<enhancer, job, probe>>

\* the Replicate service works on the prediction while the adapter polls
Polling(c) == call[c].pc \in {"waitTimer", "awaitPoll"}

RemoteProgress(c) ==
  /\ Polling(c)
  /\ job[c].status = "starting"
  /\ job' = [job EXCEPT ![c] = Prediction("processing", <<>>, "")]
  /\ UNCHANGED <<enhancer, call, probe>>

RemoteFinish(c) ==
  /\ Polling(c)
  /\ job[c].status \in InProgress
  /\ \E p \in TerminalPredictions : job' = [job EXCEPT ![c] = p]
  /\ UNCHANGED <<enhancer, call, probe>>

(***************************************************************************)
(* The specification: one object, one caller that awaits every call.       *)
(***************************************************************************)
CallStep(c) ==
  \/ Normalize(c)
  \/ BuildPrompt(c)
  \/ GenerateImage(c)
  \/ GeminiResponse(c)
  \/ VisionResponse(c)
  \/ DalleResponse(c)
  \/ StabilityResponse(c)
  \/ CreateResponse(c)
  \/ TimerFire(c)
  \/ PollResponse(c)
  \/ ImageResponse(c)
  \/ DetectMime(c)
  \/ Settle(c)

Next ==
  \/ \E k \in ApiKeys, o \in ProviderOptions : Construct(k, o)
  \/ \E i \in ImageInputs, t \in ProductTypeInputs, col \in ColorInputs :
       EnhanceImage(MainCall, i, t, col)
  \/ CallStep(MainCall)
  \/ NetworkFail(MainCall)
  \/ RemoteProgress(MainCall)
  \/ RemoteFinish(MainCall)

Spec == Init /\ [][Next]_vars

(***************************************************************************)
(* The Replicate adapter alone, with a credential, under the scheduling    *)
(* the runtime gives: every pending continuation, timer and response is    *)
(* eventually delivered, and the service eventually finishes a prediction. *)
(***************************************************************************)
LiveInit ==
  /\ enhancer = [state |-> "ready", apiKey |-> "key-1", provider |-> "replicate",
                 aiProvider |-> createAIProvider("replicate").adapter]
  /\ call = [c \in Calls |-> IdleCall]
  /\ job = [c \in Calls |-> NoPrediction]
  /\ probe = NoProbe

LiveImageInputs == {BufferInput(PngBytes), TextInput(<<".","/","b">>)}
LiveProductTypes == {"shirt", "mug"}

ReplicateStep(c) ==
  \/ Normalize(c)
  \/ BuildPrompt(c)
  \/ GenerateImage(c)
  \/ CreateResponse(c)
  \/ TimerFire(c)
  \/ PollResponse(c)
  \/ ImageResponse(c)
  \/ DetectMime(c)

LiveNext ==
  \/ \E i \in LiveImageInputs, t \in LiveProductTypes :
       EnhanceImage(MainCall, i, t, NoColor)
  \/ ReplicateStep(MainCall)
  \/ Settle(MainCall)
  \/ RemoteProgress(MainCall)
  \/ RemoteFinish(MainCall)

LiveSpec ==
  /\ LiveInit
  /\ [][LiveNext]_vars
  /\ WF_vars(ReplicateStep(MainCall))
  /\ WF_vars(RemoteFinish(MainCall))

(***************************************************************************)
(* One object and two enhanceImage calls in flight at once: the callers do *)
(* not await one call before the next, and the continuations of the two    *)
(* calls run in any order.                                                 *)
(***************************************************************************)
ConcInit ==
  /\ enhancer \in {constructor("key-1", [given |-> TRUE, name |-> n]) :
                     n \in Providers}
  /\ call = [c \in Calls |-> IdleCall]
  /\ job = [c \in Calls |-> NoPrediction]
  /\ probe = NoProbe

\* the requests of the two callers differ in the image, the category and
\* the color
ConcRequests ==
  [ c1 |-> [image |-> BufferInput(JpegBytes), productType |-> "shirt",
            color |-> [given |-> TRUE, text |-> "navy blue"]],
    c2 |-> [image |-> TextInput(PngB64), productType |-> "mug",
            color |-> NoColor] ]

ConcNext ==
  \E c \in Calls :
    \/ EnhanceImage(c, ConcRequests[c].image, ConcRequests[c].productType,
                    ConcRequests[c].color)
    \/ CallStep(c)
    \/ NetworkFail(c)
    \/ RemoteProgress(c)
    \/ RemoteFinish(c)

ConcSpec == ConcInit /\ [][ConcNext]_vars

(***************************************************************************)
(* The functions of the package on their own: the initial state holds the  *)
(* arguments of one application, the step applies the function.            *)
(***************************************************************************)
\* longest Buffer handed to detectMimeType
MaxBytes == 4

\* the bytes of the four signatures, and one byte of none
ByteValues == {0, 70, 71, 73, 78, 80, 82, 137, 216, 255}

Buffers == UNION {[1..n -> ByteValues] : n \in 0..MaxBytes}

FactoryArguments == Providers \cup {"", "midjourney", "NanoBanana"}

ProbeInputs ==
  {[NoProbe EXCEPT !.fn = "createAIProvider", !.name = n] :
     n \in FactoryArguments}
  \cup {[NoProbe EXCEPT !.fn = "constructor", !.apiKey = k, !.option = o] :
          k \in ApiKeys, o \in ProviderOptions}
  \cup {[NoProbe EXCEPT !.fn = "detectMimeType", !.bytes = b] : b \in Buffers}
  \cup {[NoProbe EXCEPT !.fn = f, !.productType = t, !.color = col,
                        !.hasDesign = h] :
          f \in {"buildPrompt", "buildPromptSingle"},
          t \in ProductTypeInputs, col \in ColorInputs, h \in BOOLEAN}
  \cup {[NoProbe EXCEPT !.fn = "normalizeImageInput", !.image = i] :
          i \in ImageInputs}
  \cup {[NoProbe EXCEPT !.fn = "getProductName", !.productType = t] :
          t \in ProductTypeInputs}

PureInit ==
  /\ enhancer = NoEnhancer
  /\ call = [c \in Calls |-> IdleCall]
  /\ job = [c \in Calls |-> NoPrediction]
  /\ probe \in ProbeInputs

Pending(fn) == probe.fn = fn /\ ~probe.applied

ApplyCreateAIProvider ==
  /\ Pending("createAIProvider")
  /\ probe' = [probe EXCEPT !.applied = TRUE,
                            !.created = createAIProvider(probe.name)]
  /\ UNCHANGED <<enhancer, call, job>>

ApplyConstructor ==
  /\ Pending("constructor")
  /\ probe' = [probe EXCEPT !.applied = TRUE,
                            !.object = constructor(probe.apiKey, probe.option)]
  /\ UNCHANGED <<enhancer, call, job>>

ApplyDetectMimeType ==
  /\ Pending("detectMimeType")
  /\ probe' = [probe EXCEPT !.applied = TRUE,
                            !.mimeType = detectMimeType(probe.bytes)]
  /\ UNCHANGED <<enhancer, call, job>>

ApplyBuildPrompt ==
  /\ Pending("buildPrompt")
  /\ probe' = [probe EXCEPT !.applied = TRUE,
                 !.prompt = buildPrompt(probe.productType, probe.color,
                                        probe.hasDesign)]
  /\ UNCHANGED <<enhancer, call, job>>

ApplyBuildPromptSingle ==
  /\ Pending("buildPromptSingle")
  /\ probe' = [probe EXCEPT !.applied = TRUE,
                 !.prompt = buildPromptSingle(probe.productType, probe.color,
                                              probe.hasDesign)]
  /\ UNCHANGED <<enhancer, call, job>>

ApplyNormalizeImageInput ==
  /\ Pending("normalizeImageInput")
  /\ probe' = [probe EXCEPT !.applied = TRUE,
                            !.normalized = normalizeImageInput(probe.image)]
  /\ UNCHANGED <<enhancer, call, job>>

ApplyGetProductName ==
  /\ Pending("getProductName")
  /\ probe' = [probe EXCEPT !.applied = TRUE,
                            !.productName = getProductName(probe.productType)]
  /\ UNCHANGED <<enhancer, call, job>>

PureNext ==
  \/ ApplyCreateAIProvider
  \/ ApplyConstructor
  \/ ApplyDetectMimeType
  \/ ApplyBuildPrompt
  \/ ApplyBuildPromptSingle
  \/ ApplyNormalizeImageInput
  \/ ApplyGetProductName

PureSpec == PureInit /\ [][PureNext]_vars

Applied(fn) == probe.fn = fn /\ probe.applied

(***************************************************************************)
(* Properties.                                                             *)
(***************************************************************************)
FacadeSteps ==
  <<"normalizeImageInput", "buildPrompt", "generateImage", "detectMimeType">>

IsPrefix(s, t) == Len(s) <= Len(t) /\ s = SubSeq(t, 1, Len(s))

Invoked(c) == call[c].invocations # <<>>
Adapter(c) == call[c].invocations[1].adapter
Returned(c) == call[c].pc \in {"detectMime", "done"}
NoResult == [image |-> <<>>, mimeType |-> ""]

\* C1: an adapter invoked with an empty credential fails with its
\* missing-credential error and has issued no network request.
C1_EmptyCredentialFailsFast ==
  \A c \in Calls :
    (Invoked(c) /\ call[c].invocations[1].apiKey = "") =>
      /\ call[c].pc = "failed"
      /\ call[c].error = Err(MissingKeyMessage(Adapter(c)), "")
      /\ call[c].requests = <<>>

C1_Witness ==
  \E c \in Calls :
    /\ Invoked(c)
    /\ call[c].invocations[1].apiKey = ""
    /\ Adapter(c) = "StabilityAIProvider"
    /\ call[c].invocations[1].referenceImage = PngBytes
    /\ call[c].pc = "failed"

\* C2: enhanceImage takes its steps in the order normalize, build prompt,
\* generateImage, detect MIME type; a call that succeeded invoked the adapter
\* exactly once, returns the adapter's bytes and the MIME type detected on them.
C2_LinearFlow ==
  \A c \in Calls :
    /\ IsPrefix(call[c].steps, FacadeSteps)
    /\ Len(call[c].invocations) <= 1
    /\ Invoked(c) => Len(call[c].steps) >= 3
                     /\ call[c].invocations[1].prompt = call[c].prompt
                     /\ call[c].invocations[1].referenceImage = call[c].imageBuffer
    /\ call[c].pc = "done" =>
         /\ call[c].steps = FacadeSteps
         /\ Len(call[c].invocations) = 1
         /\ call[c].ret.image = call[c].enhancedImage
         /\ call[c].ret.mimeType = detectMimeType(call[c].enhancedImage)

C2_Witness ==
  \E c \in Calls :
    /\ call[c].pc = "done"
    /\ call[c].ret = [image |-> JpegBytes, mimeType |-> "image/jpeg"]

\* C3: a failed normalization ends the call before the adapter is invoked
\* and before any request; a failed generateImage was invoked once, on the
\* bound adapter, and the call fails with no result.
C3_FailuresPropagate ==
  \A c \in Calls :
    /\ (call[c].steps # <<>> /\ ~normalizeImageInput(call[c].image).ok) =>
         /\ call[c].pc = "failed"
         /\ call[c].error = normalizeImageInput(call[c].image).error
         /\ call[c].invocations = <<>>
         /\ call[c].requests = <<>>
    /\ call[c].pc = "failed" =>
         /\ call[c].ret = NoResult
         /\ call[c].error # NoError
         /\ "detectMimeType" \notin {call[c].steps[i] : i \in 1..Len(call[c].steps)}
         /\ Invoked(c) =>
              /\ Len(call[c].invocations) = 1
              /\ Adapter(c) = enhancer.aiProvider
              /\ normalizeImageInput(call[c].image).ok

C3_Witness ==
  \E c \in Calls :
    /\ call[c].pc = "failed"
    /\ Invoked(c)
    /\ call[c].error = Err("Stability AI API error: ", TextErrorBody)

\* C4: every prompt handed to an adapter holds the design-preservation
\* clause exactly once, whatever the category and the color.
C4_PreservationClauseOnce ==
  \A c \in Calls :
    \A i \in 1..Len(call[c].invocations) :
      Count(call[c].invocations[i].prompt, PreservationClause) = 1

C4_Witness ==
  \E c \in Calls :
    /\ Invoked(c)
    /\ call[c].productType = "poster"
    /\ ColorGiven(call[c].color)

IsReplicate(c) == Invoked(c) /\ Adapter(c) = "ReplicateProvider"
IsOpenAI(c) == Invoked(c) /\ Adapter(c) = "OpenAIProvider"
ImageFetched(c) ==
  \E i \in 1..Len(call[c].requests) : call[c].requests[i] = OutputUrl

\* C5: the Replicate adapter fetches the output image and returns only when
\* the status that ended the poll loop is succeeded; on any other status it
\* fails without fetching an output URL.
C5_OnlySucceededIsFetched ==
  \A c \in Calls :
    IsReplicate(c) =>
      /\ (ImageFetched(c) \/ Returned(c)) => call[c].result.status = "succeeded"
      /\ Len(SelectSeq(call[c].requests,
                       LAMBDA q : q = "replicate:predictions")) <= 1

\* C6: a response with response.ok false to any request of the Replicate
\* adapter makes generateImage fail with the error built from that response;
\* the body of such a response is never returned as the image.
C6_NoNonOkResponseSwallowed ==
  \A c \in Calls :
    (IsReplicate(c) /\ call[c].nonOk) =>
      /\ call[c].pc = "failed"
      /\ call[c].error.kind = "Replicate API error: "

\* C7: a Replicate call whose requests are all answered and whose prediction
\* eventually leaves starting/processing eventually completes.
C7_PollingCallCompletes ==
  \A c \in Calls : (call[c].pc # "idle") ~> Finished(c)

C7_Witness ==
  \E c \in Calls :
    /\ IsReplicate(c)
    /\ call[c].pc = "done"
    /\ call[c].polls >= 2

\* C8: while the last status received is starting or processing the
\* Replicate adapter is waiting or polling, whatever the number of polls so
\* far (it stops early only when a fetch rejects or a body does not parse),
\* and the next poll is always possible.
C8_NoPollLimit ==
  \A c \in Calls :
    /\ (IsReplicate(c) /\ call[c].result.status \in InProgress) =>
         \/ call[c].pc \in {"waitTimer", "awaitPoll"}
         \/ /\ call[c].pc = "failed"
            /\ call[c].error \in {Err("TypeError: fetch failed", ""), SyntaxError}
    /\ call[c].pc = "waitTimer" => ENABLED TimerFire(c)

C8_Witness ==
  \E c \in Calls :
    /\ IsReplicate(c)
    /\ call[c].polls = MaxPolls
    /\ call[c].waits = MaxPolls
    /\ call[c].pc = "waitTimer"
    /\ call[c].result.status = "processing"

\* C9: the OpenAI adapter issues the generation request only after the
\* vision request succeeded; a failed vision request ends the call with the
\* vision error and no generation request, a failed generation request ends
\* it with the generation error, and an image is returned only after two
\* successful responses.
C9_VisionThenGeneration ==
  \A c \in Calls :
    IsOpenAI(c) =>
      /\ IsPrefix(call[c].requests,
                  <<"openai:chat/completions", "openai:images/generations">>)
      /\ Len(call[c].requests) = 2 => call[c].description # ""
      /\ call[c].nonOk =>
           /\ call[c].pc = "failed"
           /\ call[c].error.kind =
                IF call[c].description = "" THEN "OpenAI Vision API error: "
                ELSE "OpenAI DALL-E API error: "
      /\ call[c].error.kind = "OpenAI Vision API error: " =>
           Len(call[c].requests) = 1
      /\ call[c].error.kind = "OpenAI DALL-E API error: " =>
           Len(call[c].requests) = 2
      /\ Returned(c) => Len(call[c].requests) = 2 /\ ~call[c].nonOk

C9_Witness ==
  \E c \in Calls :
    /\ IsOpenAI(c)
    /\ call[c].pc = "failed"
    /\ call[c].description # ""
    /\ call[c].error = Err("OpenAI DALL-E API error: ", JsonErrorBody)

\* C10: with a credential, the NanoBanana and the Stability adapter have
\* issued exactly one request from the invocation on, on success and on
\* failure; the OpenAI adapter one or two, and two when it returns.
C10_RequestCounts ==
  \A c \in Calls :
    (Invoked(c) /\ call[c].invocations[1].apiKey # "") =>
      /\ Adapter(c) \in {"NanoBananaProvider", "StabilityAIProvider"} =>
           Len(call[c].requests) = 1
      /\ Adapter(c) = "OpenAIProvider" =>
           /\ Len(call[c].requests) \in {1, 2}
           /\ Returned(c) => Len(call[c].requests) = 2

C10_Witness ==
  \E c \in Calls :
    /\ Invoked(c)
    /\ Adapter(c) = "NanoBananaProvider"
    /\ call[c].pc = "failed"
    /\ call[c].error = Err("Nano Banana API did not return an image", "")
    /\ Len(call[c].requests) = 1

IsNanoBanana(c) == Invoked(c) /\ Adapter(c) = "NanoBananaProvider"

\* the errors an adapter builds from a response whose response.ok is false
ApiErrorKinds ==
  {"Google Gemini API error: ", "OpenAI Vision API error: ",
   "OpenAI DALL-E API error: ", "Stability AI API error: ",
   "Replicate API error: "}

\* C11: the message of an error built from a non-success response embeds
\* the body of that response as the remote sent it, JSON or not.
C11_ErrorEmbedsRawBody ==
  \A c \in Calls :
    (call[c].pc = "failed" /\ call[c].error.kind \in ApiErrorKinds) =>
      call[c].error.detail = call[c].nonOkRaw

\* C12: after a success response that carries no image part the NanoBanana
\* adapter fails with the no-image-returned error and no other; when it
\* returns, the response was a success response.
C12_NoImagePartIsNoImageError ==
  \A c \in Calls :
    IsNanoBanana(c) =>
      /\ Returned(c) => ~call[c].nonOk /\ call[c].enhancedImage # <<>>
      /\ ( /\ call[c].pc = "failed"
           /\ call[c].requests # <<>>
           /\ ~call[c].nonOk
           /\ call[c].error \notin {Err("TypeError: fetch failed", ""), SyntaxError} )
         => call[c].error = Err("Nano Banana API did not return an image", "")

\* C13: createAIProvider gives an adapter for the four identities, each its
\* own class, and throws for every other string, the empty one included; an
\* application leaves the rest of the state alone.
C13_FactoryClosure ==
  Applied("createAIProvider") =>
    /\ probe.created.ok <=>
         probe.name \in {"nanobanana", "openai", "stability", "replicate"}
    /\ probe.name = "nanobanana" => probe.created.adapter = "NanoBananaProvider"
    /\ probe.name = "openai" => probe.created.adapter = "OpenAIProvider"
    /\ probe.name = "stability" => probe.created.adapter = "StabilityAIProvider"
    /\ probe.name = "replicate" => probe.created.adapter = "ReplicateProvider"
    /\ ~probe.created.ok => probe.created.adapter = ""
    /\ enhancer = NoEnhancer

C13_Witness ==
  /\ Applied("createAIProvider")
  /\ probe.name = ""
  /\ ~probe.created.ok

\* C14: once constructed the object never changes, and every generateImage
\* invocation is made on the adapter bound at construction with the
\* credential given at construction.
C14_BindingImmutable ==
  [][ /\ enhancer.state # "none" => enhancer' = enhancer
      /\ \A c \in Calls :
           \A i \in 1..Len(call'[c].invocations) :
             /\ call'[c].invocations[i].adapter = enhancer'.aiProvider
             /\ call'[c].invocations[i].apiKey = enhancer'.apiKey
             /\ enhancer'.state = "ready" ]_vars

C14_Witness ==
  \E c \in Calls :
    /\ IsOpenAI(c)
    /\ call[c].invocations[1].apiKey = "key-1"
    /\ enhancer.apiKey = "key-1"
    /\ call[c].pc = "done"

\* the adapter class of each provider identity
AdapterClass ==
  [nanobanana |-> "NanoBananaProvider", openai |-> "OpenAIProvider",
   stability |-> "StabilityAIProvider", replicate |-> "ReplicateProvider"]

\* C15: constructed without a provider the object binds nanobanana and the
\* NanoBanana adapter; constructed with one of the four identities it binds
\* that identity and its adapter; the credential is stored as given.
C15_DefaultProvider ==
  Applied("constructor") =>
    /\ ~probe.option.given =>
         probe.object = [state |-> "ready", apiKey |-> probe.apiKey,
                         provider |-> "nanobanana",
                         aiProvider |-> "NanoBananaProvider"]
    /\ (probe.option.given /\ probe.option.name \in DOMAIN AdapterClass) =>
         probe.object = [state |-> "ready", apiKey |-> probe.apiKey,
                         provider |-> probe.option.name,
                         aiProvider |-> AdapterClass[probe.option.name]]

C15_Witness ==
  /\ Applied("constructor")
  /\ ~probe.option.given
  /\ probe.object.aiProvider = "NanoBananaProvider"

\* text that Buffer.from(text, 'base64') cannot take as base64
NotBase64(text) ==
  \E i \in 1..Len(text) : B64Value(text[i]) = 64 /\ text[i] # "="

\* C16: text without path separators that is not base64 is handled as a
\* file path: the result is the contents of that file, or the read error.
C16_BareNameIsReadAsFile ==
  ( /\ Applied("normalizeImageInput")
    /\ ~probe.image.isBuffer
    /\ ~StartsWith(probe.image.text, DataUriPrefix)
    /\ ~Includes(probe.image.text, "/")
    /\ ~Includes(probe.image.text, "\\")
    /\ NotBase64(probe.image.text) )
  => IF probe.image.text \in FilePaths
       THEN /\ probe.normalized.ok
            /\ probe.normalized.buffer = FileContents(probe.image.text)
       ELSE ~probe.normalized.ok

\* C17: the reference image of every generateImage invocation is a
\* non-empty Buffer.
C17_ReferenceImageNonEmpty ==
  \A c \in Calls :
    \A i \in 1..Len(call[c].invocations) :
      call[c].invocations[i].referenceImage # <<>>

HasPrefix(b, p) == Len(b) >= Len(p) /\ SubSeq(b, 1, Len(p)) = p

MimeTypes == {"image/jpeg", "image/png", "image/gif", "image/webp"}

\* C18: detectMimeType answers every Buffer, the empty and the short ones
\* included: image/jpeg after FF D8, else image/png after 89 50 4E 47, else
\* image/gif after 47 49 46, else image/webp after 52 49 46 46, else image/png.
C18_MimeSniffing ==
  /\ Pending("detectMimeType") => ENABLED ApplyDetectMimeType
  /\ Applied("detectMimeType") =>
       /\ probe.mimeType \in MimeTypes
       /\ probe.mimeType =
            IF HasPrefix(probe.bytes, <<255, 216>>) THEN "image/jpeg"
            ELSE IF HasPrefix(probe.bytes, <<137, 80, 78, 71>>) THEN "image/png"
            ELSE IF HasPrefix(probe.bytes, <<71, 73, 70>>) THEN "image/gif"
            ELSE IF HasPrefix(probe.bytes, <<82, 73, 70, 70>>) THEN "image/webp"
            ELSE "image/png"

C18_Witness ==
  /\ Applied("detectMimeType")
  /\ probe.bytes = <<255, 216>>
  /\ probe.mimeType = "image/jpeg"

Segments(prompt) == {prompt[i] : i \in 1..Len(prompt)}

\* C19: with a color, buildPrompt names the color at least twice; with no
\* color it holds neither the color qualifier nor the reinforcement clause.
C19_ColorNamedTwice ==
  Applied("buildPrompt") =>
    IF ColorGiven(probe.color)
      THEN Count(probe.prompt, probe.color.text) >= 2
      ELSE Segments(probe.prompt) \cap {" in ", " color", PromptReinforcement} = {}

PresentationKeywords == {"hanger", "stand", "surface", "desk", "hook"}

KeywordsOf(productType) ==
  CASE productType \in {"hoodie", "shirt", "tank_top", "long_sleeve",
                        "sweatshirt", "jacket"} -> {"hanger"}
    [] productType = "facecap"     -> {"stand"}
    [] productType = "mug"         -> {"surface"}
    [] productType = "sticker_pad" -> {"desk", "surface"}
    [] productType = "tote_bag"    -> {"hook", "surface"}

ProductNames ==
  [ hoodie |-> "hoodie", facecap |-> "face cap or baseball cap",
    shirt |-> "t-shirt or shirt", mug |-> "ceramic mug",
    sticker_pad |-> "sticker pad or notepad", tank_top |-> "tank top",
    long_sleeve |-> "long sleeve shirt", sweatshirt |-> "sweatshirt",
    jacket |-> "jacket", tote_bag |-> "tote bag" ]

\* C21: buildPrompt answers every category value; for a value outside the
\* ten categories it takes the generic template and names the item
\* "product"; getProductName gives "product" for every value outside the ten
\* categories and the phrase of the table for each of the ten.
C21_UnknownCategoryIsProduct ==
  /\ Pending("buildPrompt") => ENABLED ApplyBuildPrompt
  /\ (Applied("buildPrompt") /\ probe.productType \notin ProductType) =>
       /\ Segments(probe.prompt) \cap PresentationKeywords = {}
       /\ " displayed in a luxury boutique setting." \in Segments(probe.prompt)
       /\ probe.prompt[2] = "product"
  /\ Applied("getProductName") =>
       probe.productName =
         IF probe.productType \in DOMAIN ProductNames
           THEN ProductNames[probe.productType] ELSE "product"

\* C24: an object exists only with one of the four provider identities and
\* the adapter of that identity; after a construction that threw there is no
\* object and so no enhanceImage call; no call fails with the
\* unsupported-provider error, and every invocation is made on an adapter.
C24_UnknownProviderRejectedAtConstruction ==
  /\ enhancer.state = "ready" =>
       /\ enhancer.provider \in {"nanobanana", "openai", "stability", "replicate"}
       /\ enhancer.aiProvider = AdapterClass[enhancer.provider]
  /\ enhancer.state # "ready" =>
       /\ enhancer.aiProvider = ""
       /\ \A c \in Calls : call[c] = IdleCall
  /\ \A c \in Calls :
       /\ call[c].error.kind # "Unsupported provider: "
       /\ \A i \in 1..Len(call[c].invocations) :
            call[c].invocations[i].adapter \in
              {"NanoBananaProvider", "OpenAIProvider", "StabilityAIProvider",
               "ReplicateProvider"}

C24_Witness ==
  /\ enhancer.state = "threw"
  /\ \A c \in Calls : call[c].pc = "idle"

CreateRequest == "replicate:predictions"
StatusRequest == "replicate:predictions/id"

\* C23: in a Replicate call the creation request is the first request and
\* the only one of its kind; the adapter waits or polls only while the last
\* status it saw is starting or processing; every status request leaves
\* from a wait that was started for it, one wait per request; and after a
\* creation answer with another status no wait and no status request is made.
C23_CreateOncePollWhileInProgress ==
  /\ [](\A c \in Calls : IsReplicate(c) =>
         LET f == call[c]
         IN  /\ f.requests # <<>> =>
                  /\ f.requests[1] = CreateRequest
                  /\ Count(f.requests, CreateRequest) = 1
             /\ Count(f.requests, StatusRequest) = f.polls
             /\ f.pc \in {"waitTimer", "awaitPoll"} => f.result.status \in InProgress
             /\ IF f.pc = "waitTimer"
                  THEN f.waits = Min(f.polls + 1, MaxPolls)
                  ELSE f.waits = f.polls
             /\ f.created \notin InProgress => f.polls = 0 /\ f.waits = 0)
  /\ [][\A c \in Calls :
         (call[c].pc # "awaitPoll" /\ call'[c].pc = "awaitPoll") =>
           /\ IsReplicate(c)
           /\ call[c].pc = "waitTimer"
           /\ call[c].result.status \in InProgress
           /\ call[c].requests # <<>>]_vars

C23_Witness ==
  \E c \in Calls :
    /\ IsReplicate(c)
    /\ call[c].created = "starting"
    /\ call[c].requests =
         <<CreateRequest, StatusRequest, StatusRequest, OutputUrl>>
    /\ call[c].waits = 2
    /\ call[c].pc = "done"

\* C22: with two calls in flight on one object, in every order of their
\* steps: the invocation of a call carries the prompt of that call's
\* category and color and that call's normalized image; what a call returns
\* is the bytes its own invocation resolved with; and a step that changes
\* one call's frame or prediction leaves the other call's alone.
C22_ConcurrentCallsIndependent ==
  /\ [](\A c \in Calls :
         LET f == call[c]
         IN  /\ Len(f.invocations) <= 1
             /\ \A i \in 1..Len(f.invocations) :
                  /\ f.invocations[i].prompt =
                       buildPrompt(f.productType, f.color, TRUE)
                  /\ f.invocations[i].referenceImage =
                       normalizeImageInput(f.image).buffer
             /\ f.pc = "done" =>
                  f.ret = [image |-> f.enhancedImage,
                           mimeType |-> detectMimeType(f.enhancedImage)])
  /\ [][\A c \in Calls : \A d \in Calls \ {c} :
         /\ (call'[c] # call[c] \/ job'[c] # job[c]) =>
              (call'[d] = call[d] /\ job'[d] = job[d])
         /\ call'[c].enhancedImage # call[c].enhancedImage =>
              (call[c].pc \in AwaitingFetch \/ call'[c] = IdleCall)]_vars

C22_Witness ==
  /\ call["c1"].pc = "detectMime"
  /\ call["c2"].pc \in AwaitingFetch
  /\ call["c1"].productType = "shirt"
  /\ call["c2"].productType = "mug"
  /\ call["c1"].invocations[1].prompt # call["c2"].invocations[1].prompt
  /\ call["c1"].invocations[1].referenceImage # call["c2"].invocations[1].referenceImage
  /\ call["c1"].enhancedImage # <<>>

====
